---- MODULE Spec2Model ----
(***************************************************************************)
(* Session health checker (skills/session-health/scripts/check_sessions.py) *)
(* as a state machine: one invocation of main() walks a tree of session    *)
(* files, aggregates each file line by line, classifies it, reports, and   *)
(* with --fix removes the files whose issue text contains "CRITICAL".      *)
(*                                                                         *)
(* Text is modelled as sequences of one-character strings, so that the     *)
(* f-string formatting, the cmd[:50] slice and the `"CRITICAL" in i`        *)
(* substring test are computed and not assumed.                            *)
(***************************************************************************)
EXTENDS Integers, Sequences, FiniteSets, TLC

(* ------------------------------ text ---------------------------------- *)

CRITICAL ==
    <<"C","R","I","T","I","C","A","L">>

UNKNOWN ==
    <<"u","n","k","n","o","w","n">>

FmtWarmupHead ==
    <<"C","R","I","T","I","C","A","L",":"," ","W","a","r","m","u","p"," ","l","o","o","p"," ","d","e","t","e","c","t","e","d"," ","(">>

FmtWarmupTail ==
    <<" ","w","a","r","m","u","p"," ","e","r","r","o","r","s",")">>

FmtMessagesHead ==
    <<"W","A","R","N","I","N","G",":"," ","E","x","c","e","s","s","i","v","e"," ","m","e","s","s","a","g","e","s"," ","(">>

FmtMessagesTail ==
    <<")">>

FmtRepeatHead ==
    <<"W","A","R","N","I","N","G",":"," ","C","o","m","m","a","n","d"," ","r","e","p","e","a","t","e","d"," ">>

FmtRepeatMid ==
    <<"x",":"," ">>

FmtRepeatTail ==
    <<".",".",".">>

FmtSizeHead ==
    <<"W","A","R","N","I","N","G",":"," ","L","a","r","g","e"," ","s","e","s","s","i","o","n"," ","f","i","l","e"," ","(">>

FmtSizeTail ==
    <<"K","B",")">>

FmtReadHead ==
    <<"E","r","r","o","r"," ","r","e","a","d","i","n","g"," ","f","i","l","e",":"," ">>

ErrListGet ==
    <<"'","l","i","s","t","'"," ","o","b","j","e","c","t"," ","h","a","s"," ","n","o"," ","a","t","t","r","i","b","u","t","e"," ","'","g","e","t","'">>

ErrNoneGet ==
    <<"'","N","o","n","e","T","y","p","e","'"," ","o","b","j","e","c","t"," ","h","a","s"," ","n","o"," ","a","t","t","r","i","b","u","t","e"," ","'","g","e","t","'">>

ErrStrGet ==
    <<"'","s","t","r","'"," ","o","b","j","e","c","t"," ","h","a","s"," ","n","o"," ","a","t","t","r","i","b","u","t","e"," ","'","g","e","t","'">>

ErrUnhashable ==
    <<"u","n","h","a","s","h","a","b","l","e"," ","t","y","p","e",":"," ","'","l","i","s","t","'">>

ErrPermHead ==
    <<"[","E","r","r","n","o"," ","1","3","]"," ","P","e","r","m","i","s","s","i","o","n"," ","d","e","n","i","e","d",":"," ","'">>

ErrIsDirHead ==
    <<"[","E","r","r","n","o"," ","2","1","]"," ","I","s"," ","a"," ","d","i","r","e","c","t","o","r","y",":"," ","'">>

ErrPathTail ==
    <<"'">>

Suffix ==
    <<".","j","s","o","n","l">>

DigitChars ==
    <<"0","1","2","3","4","5","6","7","8","9">>

RECURSIVE Digits(_)
\* str(n) of a non-negative integer, as the f-strings format the counts.
Digits(n) ==
    IF n < 10 THEN <<DigitChars[n + 1]>>
    ELSE Digits(n \div 10) \o <<DigitChars[(n % 10) + 1]>>

\* Python's `needle in text` on strings.
Contains(text, needle) ==
    \E i \in 0..(Len(text) - Len(needle)) :
        SubSeq(text, i + 1, i + Len(needle)) = needle

\* Python's text[:n].
Slice(text, n) ==
    SubSeq(text, 1, IF Len(text) < n THEN Len(text) ELSE n)

(* --------------------------- program constants ------------------------ *)

WarmupLimit == 10

MessageLimit == 500

TopN == 5

RepeatLimit == 50

CmdChars == 50

SizeLimitKB == 2000

BytesPerKB == 1024

(* ------------------------ decoded JSON, abstracted ---------------------- *)
(* A JSON value used as a command or tool name: k is "str" (text s),       *)
(* "int" (hashable but not sliceable: a number, null, true), "list"        *)
(* (unhashable: an array or object) or "absent" (the key is missing).      *)

StrKey(s) == [k |-> "str", s |-> s]

IntKey == [k |-> "int", s |-> <<"7">>]

ListKey == [k |-> "list", s |-> <<>>]

NoKey == [k |-> "absent", s |-> <<>>]

(* A content item: dict says whether it is a mapping; warm is              *)
(* item.get("content") == "Warmup"; err is the truthiness of               *)
(* item.get("is_error"); type is item.get("type"); input is the shape of   *)
(* item.get("input"); command is input's "command"; name is item's "name". *)
Item(dict, warm, err, type, input, command, name) ==
    [dict |-> dict, warm |-> warm, err |-> err, type |-> type,
     input |-> input, command |-> command, name |-> name]

(* A line: json is "invalid" (json.loads raises JSONDecodeError), "list"   *)
(* (decodes to a value that is no mapping) or "dict"; side is the          *)
(* truthiness of isSidechain; type is msg.get("type"); message is the      *)
(* shape of msg's "message"; content the shape of its "content".           *)
Line(json, side, type, message, content, items) ==
    [json |-> json, side |-> side, type |-> type, message |-> message,
     content |-> content, items |-> items]

Repeat(x, n) == [i \in 1..n |-> x]

(* ---------------------------- analyze_session --------------------------- *)

NewStats(path, size) ==
    [path |-> path, size |-> size, message_count |-> 0, warmup_errors |-> 0,
     tool_calls |-> <<>>, is_sidechain |-> FALSE, issues |-> <<>>]

\* Counter.__getitem__/__setitem__: tool_calls[cmd] += 1, keys kept in
\* insertion order as a dict keeps them.
Increment(tool_calls, cmd) ==
    IF \E i \in 1..Len(tool_calls) : tool_calls[i].cmd = cmd
    THEN [i \in 1..Len(tool_calls) |->
            IF tool_calls[i].cmd = cmd
            THEN [tool_calls[i] EXCEPT !.count = @ + 1]
            ELSE tool_calls[i]]
    ELSE Append(tool_calls, [cmd |-> cmd, count |-> 1])

\* msg.get("message", {}).get("content", []): the exception text it raises,
\* or <<>> when it returns.
ContentError(line) ==
    CASE line.message = "null" -> ErrNoneGet
      [] line.message = "nondict" -> ErrStrGet
      [] OTHER -> <<>>

\* The items the `for item in content` loops see: none unless content is a list.
ContentItems(line) ==
    IF line.message = "dict" /\ line.content = "list" THEN line.items ELSE <<>>

\* Lines 53-55 for one item: 1 when it is a warmup error.
WarmupStep(item) == IF item.dict /\ item.warm /\ item.err THEN 1 ELSE 0

RECURSIVE CountWarmups(_, _, _)
\* Lines 52-55 over items first..last: the number of warmup-error items.
\* The range is counted as its first half plus its second half.
CountWarmups(items, first, last) ==
    IF first > last THEN 0
    ELSE IF first = last THEN WarmupStep(items[first])
    ELSE CountWarmups(items, first, (first + last) \div 2)
         + CountWarmups(items, (first + last) \div 2 + 1, last)

\* Line 65: tool_input.get("command", item.get("name", "unknown")).
InvokedName(item) ==
    IF item.input = "dict" /\ item.command.k # "absent" THEN item.command
    ELSE IF item.name.k # "absent" THEN item.name
    ELSE StrKey(UNKNOWN)

\* Lines 62-66 for one item: the Counter after it, and the text of the
\* TypeError an unhashable key raises (<<>> when none is raised).
ToolStep(tool_calls, item) ==
    IF item.dict /\ item.type = "tool_use" /\ item.input # "nondict"
    THEN IF InvokedName(item).k = "list"
         THEN [tool_calls |-> tool_calls, error |-> ErrUnhashable]
         ELSE [tool_calls |-> Increment(tool_calls, InvokedName(item)), error |-> <<>>]
    ELSE [tool_calls |-> tool_calls, error |-> <<>>]

RECURSIVE CountTools(_, _, _, _)
\* Lines 61-66 over items first..last, in order, left at the first
\* exception. The range is read as its first half followed by its second.
CountTools(tool_calls, items, first, last) ==
    IF first > last THEN [tool_calls |-> tool_calls, error |-> <<>>]
    ELSE IF first = last THEN ToolStep(tool_calls, items[first])
    ELSE LET mid == (first + last) \div 2
             head == CountTools(tool_calls, items, first, mid)
         IN  IF head.error # <<>> THEN head
             ELSE CountTools(head.tool_calls, items, mid + 1, last)

\* Lines 40-69 for one line: the stats after it and the text of the
\* exception that leaves the loop (<<>> when the loop goes on).
LineStep(stats, line) ==
    LET counted == [stats EXCEPT !.message_count = @ + 1]
        flagged == IF line.side THEN [counted EXCEPT !.is_sidechain = TRUE]
                   ELSE counted
        tools == CountTools(flagged.tool_calls, ContentItems(line), 1, Len(ContentItems(line)))
    IN  CASE line.json = "invalid" -> [stats |-> counted, error |-> <<>>]
          [] line.json = "list" -> [stats |-> counted, error |-> ErrListGet]
          [] line.type \in {"user", "assistant"} /\ ContentError(line) # <<>> ->
                [stats |-> flagged, error |-> ContentError(line)]
          [] line.type = "user" ->
                [stats |-> [flagged EXCEPT !.warmup_errors =
                                @ + CountWarmups(ContentItems(line), 1, Len(ContentItems(line)))],
                 error |-> <<>>]
          [] line.type = "assistant" ->
                [stats |-> [flagged EXCEPT !.tool_calls = tools.tool_calls],
                 error |-> tools.error]
          [] OTHER -> [stats |-> flagged, error |-> <<>>]

RECURSIVE ReadLines(_, _, _, _)
\* Lines 39-69: the loop over lines first..last, in file order, left at the
\* first exception that is no JSONDecodeError. The range is read as its
\* first half followed by its second half.
ReadLines(stats, lines, first, last) ==
    IF first > last THEN [stats |-> stats, error |-> <<>>]
    ELSE IF first = last THEN LineStep(stats, lines[first])
    ELSE LET mid == (first + last) \div 2
             head == ReadLines(stats, lines, first, mid)
         IN  IF head.error # <<>> THEN head
             ELSE ReadLines(head.stats, lines, mid + 1, last)

(* ------------------------------- issues --------------------------------- *)
(* An issue is kept with the rule that appended it; IssueText is the       *)
(* string the code stores: n is the cited count (or rounded size), text    *)
(* the cited command slice or exception text.                              *)

Issue(rule, n, text) == [rule |-> rule, n |-> n, text |-> text]

\* f"{size_kb:.0f}": st_size / 1024 rounded to the nearest integer, ties to even.
RoundKB(size) ==
    LET q == size \div BytesPerKB
        r == size % BytesPerKB
    IN  IF 2 * r > BytesPerKB \/ (2 * r = BytesPerKB /\ q % 2 = 1) THEN q + 1 ELSE q

\* The f-strings of lines 72, 77, 80, 85 and 88.
IssueText(issue) ==
    CASE issue.rule = "warmup" -> FmtWarmupHead \o Digits(issue.n) \o FmtWarmupTail
      [] issue.rule = "messages" -> FmtMessagesHead \o Digits(issue.n) \o FmtMessagesTail
      [] issue.rule = "repeat" ->
            FmtRepeatHead \o Digits(issue.n) \o FmtRepeatMid \o issue.text \o FmtRepeatTail
      [] issue.rule = "size" -> FmtSizeHead \o Digits(issue.n) \o FmtSizeTail
      [] OTHER -> FmtReadHead \o issue.text

\* Index of the last entry with the greatest count: a selection that breaks
\* ties by last-encountered order.
LastMax(tool_calls) ==
    CHOOSE i \in 1..Len(tool_calls) :
        /\ \A j \in 1..Len(tool_calls) : tool_calls[j].count <= tool_calls[i].count
        /\ \A j \in (i + 1)..Len(tool_calls) : tool_calls[j].count < tool_calls[i].count

\* Index of the first entry with the greatest count.
FirstMax(tool_calls) ==
    CHOOSE i \in 1..Len(tool_calls) :
        /\ \A j \in 1..Len(tool_calls) : tool_calls[j].count <= tool_calls[i].count
        /\ \A j \in 1..(i - 1) : tool_calls[j].count < tool_calls[i].count

RemoveAt(seq, i) == SubSeq(seq, 1, i - 1) \o SubSeq(seq, i + 1, Len(seq))

RECURSIVE MostCommon(_, _)
\* Counter.most_common(n): the n entries of greatest count, by descending
\* count, equal counts in insertion order.
MostCommon(tool_calls, n) ==
    IF n = 0 \/ tool_calls = <<>> THEN <<>>
    ELSE <<tool_calls[FirstMax(tool_calls)]>>
         \o MostCommon(RemoveAt(tool_calls, FirstMax(tool_calls)), n - 1)

\* The warmup rule with >= for >.
WarmupRuleInclusive(stats) ==
    IF stats.warmup_errors >= WarmupLimit
    THEN <<Issue("warmup", stats.warmup_errors, <<>>)>> ELSE <<>>

\* Lines 76-77.
WarmupRule(stats) ==
    IF stats.warmup_errors > WarmupLimit
    THEN <<Issue("warmup", stats.warmup_errors, <<>>)>> ELSE <<>>

\* Lines 79-80.
MessageRule(stats) ==
    IF stats.message_count > MessageLimit
    THEN <<Issue("messages", stats.message_count, <<>>)>> ELSE <<>>

RECURSIVE RepeatRule(_, _)
\* Lines 83-85 from entry i of most_common(5) on. cmd[:50] raises TypeError
\* for a key that is no text: crashed says so.
RepeatRule(top, i) ==
    IF i > Len(top) THEN [issues |-> <<>>, crashed |-> FALSE]
    ELSE IF top[i].count > RepeatLimit
    THEN IF top[i].cmd.k # "str" THEN [issues |-> <<>>, crashed |-> TRUE]
         ELSE LET rest == RepeatRule(top, i + 1)
              IN  [issues |-> <<Issue("repeat", top[i].count,
                                      Slice(top[i].cmd.s, CmdChars))>> \o rest.issues,
                   crashed |-> rest.crashed]
    ELSE RepeatRule(top, i + 1)

\* Lines 87-88. size_kb is st_size / 1024, exact in binary floating point,
\* so size_kb > 2000 compares st_size with 2000 * 1024.
SizeRule(stats) ==
    IF stats.size > SizeLimitKB * BytesPerKB
    THEN <<Issue("size", RoundKB(stats.size), <<>>)>> ELSE <<>>

\* Lines 75-90: the issues of a fully read file, or the crash of the run.
Classify(stats) ==
    LET repeat == RepeatRule(MostCommon(stats.tool_calls, TopN), 1)
    IN  [stats |-> [stats EXCEPT !.issues = WarmupRule(stats) \o MessageRule(stats)
                                            \o repeat.issues \o SizeRule(stats)],
         crashed |-> repeat.crashed]

(* ------------------------------ file system ----------------------------- *)
(* A node under the root whose name ends in .jsonl: kind is "file",        *)
(* "dir" (a directory of that name), "dangling" (a symlink to nothing) or  *)
(* "absent"; readable says whether open() succeeds; locked says whether    *)
(* os.remove is refused; size is st_size; lines the content. The bytes of   *)
(* a line are not modelled (a record carries any amount of text), so the   *)
(* size of a file that has lines is independent of their number.            *)

Node(kind, readable, locked, size, lines) ==
    [kind |-> kind, readable |-> readable, locked |-> locked,
     size |-> size, lines |-> lines]

Absent == Node("absent", FALSE, FALSE, 0, <<>>)

RootText == <<"p", "/">>

\* jsonl_path.name: the second file of the tree is named CRITICAL.jsonl.
PathName(path) ==
    IF path = 2 THEN CRITICAL \o Suffix ELSE <<"s">> \o Digits(path) \o Suffix

\* str(jsonl_path).
PathText(path) == RootText \o PathName(path)

\* Lines 23-90. crashed: an exception leaves analyze_session (stat() at
\* line 29 of a dangling link, cmd[:50] at line 85).
AnalyzeSession(path, node) ==
    LET stats == NewStats(path, node.size)
        failed(text) == [stats |-> [stats EXCEPT !.issues = <<Issue("read", 0, text)>>],
                         crashed |-> FALSE]
        read == ReadLines(stats, node.lines, 1, Len(node.lines))
    IN  CASE node.kind \in {"dangling", "absent"} ->
                [stats |-> NewStats(path, 0), crashed |-> TRUE]
          [] node.kind = "dir" -> failed(ErrIsDirHead \o PathText(path) \o ErrPathTail)
          [] ~node.readable -> failed(ErrPermHead \o PathText(path) \o ErrPathTail)
          [] read.error # <<>> ->
                [stats |-> [read.stats EXCEPT !.issues = <<Issue("read", 0, read.error)>>],
                 crashed |-> FALSE]
          [] OTHER -> Classify(read.stats)

\* os.remove(path) succeeds: the node is there, is no directory, and its
\* parent directory lets it go.
Removable(node) == node.kind \in {"file", "dangling"} /\ ~node.locked

\* Line 153: any("CRITICAL" in i for i in stats["issues"]).
HasCritical(issues) ==
    \E i \in 1..Len(issues) : Contains(IssueText(issues[i]), CRITICAL)

\* sys.exit(n) for an integer n: the status the parent process sees, the
\* low eight bits of n.
ExitStatus(n) == n % 256

(* ------------------------------- inputs --------------------------------- *)

MaxLines == 2

MaxFiles == 2

MaxRuns == 2

CmdLs ==
    <<"l","s">>

CmdRmCritical ==
    <<"r","m"," ","C","R","I","T","I","C","A","L">>

ToolBash ==
    <<"B","a","s","h">>

\* A command whose "CRITICAL" lies beyond the 50 characters cmd[:50] keeps.
CmdLong == Repeat("x", CmdChars - 3) \o CRITICAL

WarmupItem == Item(TRUE, TRUE, TRUE, "tool_result", "absent", NoKey, NoKey)

QuietItem == Item(TRUE, TRUE, FALSE, "tool_result", "absent", NoKey, NoKey)

BareItem == Item(FALSE, FALSE, FALSE, "none", "absent", NoKey, NoKey)

TextItem == Item(TRUE, FALSE, FALSE, "text", "absent", NoKey, NoKey)

ToolItem(command) == Item(TRUE, FALSE, FALSE, "tool_use", "dict", command, StrKey(ToolBash))

NamedTool == Item(TRUE, FALSE, FALSE, "tool_use", "dict", NoKey, StrKey(ToolBash))

AnonTool == Item(TRUE, FALSE, FALSE, "tool_use", "absent", NoKey, NoKey)

OddInputTool == Item(TRUE, FALSE, FALSE, "tool_use", "nondict", NoKey, StrKey(ToolBash))

BadLine == Line("invalid", FALSE, "none", "absent", "absent", <<>>)

ListLine == Line("list", FALSE, "none", "absent", "absent", <<>>)

PlainLine == Line("dict", FALSE, "summary", "absent", "absent", <<>>)

SideLine == Line("dict", TRUE, "summary", "absent", "absent", <<>>)

NullMessageLine == Line("dict", TRUE, "user", "null", "absent", <<>>)

StrMessageLine == Line("dict", FALSE, "assistant", "nondict", "absent", <<>>)

ScalarContentLine == Line("dict", FALSE, "user", "dict", "nonlist", <<>>)

UserLine(items) == Line("dict", FALSE, "user", "dict", "list", items)

AssistantLine(items) == Line("dict", FALSE, "assistant", "dict", "list", items)

SampleLines ==
    { BadLine, ListLine, PlainLine, SideLine, NullMessageLine, StrMessageLine,
      ScalarContentLine,
      UserLine(<<BareItem, QuietItem, WarmupItem, ToolItem(StrKey(CmdLs))>>),
      UserLine(Repeat(WarmupItem, WarmupLimit)),
      AssistantLine(<<ToolItem(StrKey(CmdLs))>>),
      AssistantLine(Repeat(ToolItem(StrKey(CmdLs)), RepeatLimit)),
      AssistantLine(<<NamedTool, AnonTool, OddInputTool, TextItem, WarmupItem>>),
      AssistantLine(<<ToolItem(StrKey(CmdLs)), ToolItem(ListKey)>>),
      AssistantLine(Repeat(ToolItem(IntKey), RepeatLimit + 1)),
      AssistantLine(Repeat(ToolItem(StrKey(CmdRmCritical)), RepeatLimit + 1)) }

SeqsUpTo(S, n) == UNION {[1..k -> S] : k \in 0..n}

File(size, lines) == Node("file", TRUE, FALSE, size, lines)

CriticalLines == <<UserLine(Repeat(WarmupItem, WarmupLimit + 1))>>

\* Every file of at most MaxLines sample lines.
ShortFiles ==
    {File(IF lines = <<>> THEN 0 ELSE 65536, lines) :
        lines \in SeqsUpTo(SampleLines, MaxLines)}

\* One assistant record invoking six commands c1..c6, each more than
\* RepeatLimit times.
SixCommandsLine ==
    AssistantLine([j \in 1..(6 * (RepeatLimit + 1)) |->
        ToolItem(StrKey(<<"c">> \o Digits((j - 1) \div (RepeatLimit + 1) + 1)))])

\* n tool_use items invoking the command c<i>.
Invocations(i, n) == Repeat(ToolItem(StrKey(<<"c">> \o Digits(i))), n)

\* One assistant record invoking c1..c7 in that order of first appearance,
\* with counts 51, 53, 50, 53, 52, 51, 51: six exceed RepeatLimit, two
\* pairs tie, and the order of counts is not the order of appearance.
SevenCommandsLine ==
    AssistantLine(Invocations(1, RepeatLimit + 1) \o Invocations(2, RepeatLimit + 3)
                  \o Invocations(3, RepeatLimit) \o Invocations(4, RepeatLimit + 3)
                  \o Invocations(5, RepeatLimit + 2) \o Invocations(6, RepeatLimit + 1)
                  \o Invocations(7, RepeatLimit + 1))

\* Files at and around the thresholds of the four rules.
BoundaryFiles ==
    { File(SizeLimitKB * BytesPerKB, <<PlainLine>>),
      File(SizeLimitKB * BytesPerKB + 1, <<PlainLine>>),
      File((SizeLimitKB + 49) * BytesPerKB, <<PlainLine>>),
      File(65536, Repeat(PlainLine, MessageLimit)),
      File(65536, Repeat(PlainLine, MessageLimit + 1)),
      File(65536, Repeat(PlainLine, MessageLimit) \o <<BadLine>>),
      File(65536, <<AssistantLine(Repeat(ToolItem(StrKey(CmdLong)), RepeatLimit + 1))>>),
      File(65536, <<SixCommandsLine>>),
      File(65536, <<SevenCommandsLine>>),
      File(SizeLimitKB * BytesPerKB + 1,
           CriticalLines
           \o <<AssistantLine(Repeat(ToolItem(StrKey(CmdLs)), RepeatLimit + 1))>>
           \o Repeat(PlainLine, MessageLimit)) }

\* The nodes the trees of several files are made of.
TreeNodes ==
    { File(65536, <<PlainLine>>),
      File(65536, CriticalLines),
      Node("file", TRUE, TRUE, 65536, CriticalLines),
      File(65536, <<AssistantLine(Repeat(ToolItem(StrKey(CmdRmCritical)), RepeatLimit + 1))>>),
      File(65536, <<AssistantLine(Repeat(ToolItem(IntKey), RepeatLimit + 1))>>),
      File(65536, <<ListLine, PlainLine>>),
      Node("file", FALSE, FALSE, 65536, <<PlainLine>>),
      Node("dir", TRUE, FALSE, 4096, <<>>),
      Node("dangling", FALSE, FALSE, 0, <<>>) }

Paths == 1..MaxFiles

Pad(nodes) == [p \in Paths |-> IF p <= Len(nodes) THEN nodes[p] ELSE Absent]

Trees ==
    {Pad(nodes) : nodes \in SeqsUpTo(TreeNodes, MaxFiles)}
    \cup {Pad(<<node>>) : node \in ShortFiles \cup BoundaryFiles}

(* ------------------------------ the run -------------------------------- *)

VARIABLES
    root,          \* what --path names: "dir", "file" or "missing"
    fs,            \* the nodes named *.jsonl beneath the root, by path
    args,          \* the parsed command line: fix, json
    pc,            \* position in main(): start, analyze, cleanup, done
    sessions,      \* find_sessions' list
    results,       \* main's results
    problematic,   \* main's problematic
    cursor,        \* position of the cleanup loop in problematic
    removals,      \* the "Removed:" / "Failed to remove" lines printed
    output,        \* what the run printed
    exit,          \* the exit status, -1 while running
    run,           \* number of this invocation
    prev           \* what the previous invocation left behind

vars ==
    <<root, fs, args, pc, sessions, results, problematic, cursor, removals,
      output, exit, run, prev>>

NoRun ==
    [ran |-> FALSE, args |-> [fix |-> FALSE, json |-> FALSE], results |-> <<>>,
     output |-> "none", exit |-> -1, fs |-> Pad(<<>>)]

Init ==
    /\ root \in {"dir", "file", "missing"}
    /\ fs \in (IF root = "dir" THEN Trees ELSE {Pad(<<>>)})
    /\ args \in [fix : BOOLEAN, json : BOOLEAN]
    /\ pc = "start"
    /\ sessions = <<>>
    /\ results = <<>>
    /\ problematic = <<>>
    /\ cursor = 1
    /\ removals = <<>>
    /\ output = "none"
    /\ exit = -1
    /\ run = 1
    /\ prev = NoRun

RECURSIVE Matches(_)
\* The paths from p on that rglob("*.jsonl") yields.
Matches(p) ==
    IF p > MaxFiles THEN <<>>
    ELSE (IF fs[p].kind # "absent" THEN <<p>> ELSE <<>>) \o Matches(p + 1)

\* Lines 93-98. rglob yields nothing when the root is no directory.
FindSessions == IF root = "dir" THEN Matches(1) ELSE <<>>

\* Lines 110-112.
PathNotFound ==
    /\ pc = "start"
    /\ root = "missing"
    /\ output' = "notfound"
    /\ exit' = 1
    /\ pc' = "done"
    /\ UNCHANGED <<root, fs, args, sessions, results, problematic, cursor,
                   removals, run, prev>>

\* Lines 110, 114-116.
Discover ==
    /\ pc = "start"
    /\ root # "missing"
    /\ sessions' = FindSessions
    /\ pc' = "analyze"
    /\ UNCHANGED <<root, fs, args, results, problematic, cursor, removals,
                   output, exit, run, prev>>

\* Lines 118-122, one iteration. An exception leaving analyze_session ends
\* the process with a traceback and status 1.
Analyze ==
    /\ pc = "analyze"
    /\ Len(results) < Len(sessions)
    /\ LET path == sessions[Len(results) + 1]
           done == AnalyzeSession(path, fs[path])
       IN  IF done.crashed
           THEN /\ pc' = "done"
                /\ exit' = 1
                /\ output' = "traceback"
                /\ UNCHANGED <<results, problematic>>
           ELSE /\ results' = Append(results, done.stats)
                /\ problematic' = IF done.stats.issues # <<>>
                                  THEN Append(problematic, done.stats)
                                  ELSE problematic
                /\ UNCHANGED <<pc, exit, output>>
    /\ UNCHANGED <<root, fs, args, sessions, cursor, removals, run, prev>>

\* Lines 124-126: main returns None, sys.exit(None) is status 0.
ReportJson ==
    /\ pc = "analyze"
    /\ Len(results) = Len(sessions)
    /\ args.json
    /\ output' = "json"
    /\ exit' = 0
    /\ pc' = "done"
    /\ UNCHANGED <<root, fs, args, sessions, results, problematic, cursor,
                   removals, run, prev>>

\* A run that deletes whatever it analysed, --fix or not.
CleanupAlways == TRUE

\* Line 148: if args.fix.
CleanupRequested == args.fix

\* Lines 128-148 and 159-162.
ReportSummary ==
    /\ pc = "analyze"
    /\ Len(results) = Len(sessions)
    /\ ~args.json
    /\ output' = "summary"
    /\ IF problematic # <<>> /\ CleanupRequested
       THEN /\ pc' = "cleanup"
            /\ cursor' = 1
            /\ exit' = exit
       ELSE /\ pc' = "done"
            /\ cursor' = cursor
            /\ exit' = ExitStatus(Len(problematic))
    /\ UNCHANGED <<root, fs, args, sessions, results, problematic, removals,
                   run, prev>>

\* Whether line 153 lets the cleanup loop try to remove the file.
Doomed(stats) == HasCritical(stats.issues)

\* Lines 152-158, one iteration.
Cleanup ==
    /\ pc = "cleanup"
    /\ cursor <= Len(problematic)
    /\ LET stats == problematic[cursor]
       IN  IF Doomed(stats)
           THEN IF Removable(fs[stats.path])
                THEN /\ fs' = [fs EXCEPT ![stats.path] = Absent]
                     /\ removals' = Append(removals, [path |-> stats.path, ok |-> TRUE])
                ELSE /\ fs' = fs
                     /\ removals' = Append(removals, [path |-> stats.path, ok |-> FALSE])
           ELSE UNCHANGED <<fs, removals>>
    /\ cursor' = cursor + 1
    /\ UNCHANGED <<root, args, pc, sessions, results, problematic, output,
                   exit, run, prev>>

\* Line 162 after the cleanup loop, and line 166.
Finish ==
    /\ pc = "cleanup"
    /\ cursor > Len(problematic)
    /\ exit' = ExitStatus(Len(problematic))
    /\ pc' = "done"
    /\ UNCHANGED <<root, fs, args, sessions, results, problematic, cursor,
                   removals, output, run, prev>>

\* The same command line is run again on the tree as the last run left it.
Rerun ==
    /\ pc = "done"
    /\ run < MaxRuns
    /\ prev' = [ran |-> TRUE, args |-> args, results |-> results,
                output |-> output, exit |-> exit, fs |-> fs]
    /\ run' = run + 1
    /\ pc' = "start"
    /\ sessions' = <<>>
    /\ results' = <<>>
    /\ problematic' = <<>>
    /\ cursor' = 1
    /\ removals' = <<>>
    /\ output' = "none"
    /\ exit' = -1
    /\ UNCHANGED <<root, fs, args>>

Next ==
    \/ PathNotFound
    \/ Discover
    \/ Analyze
    \/ ReportJson
    \/ ReportSummary
    \/ Cleanup
    \/ Finish
    \/ Rerun

Spec == Init /\ [][Next]_vars

(* ------------------------------ properties ------------------------------ *)

\* The indexes of the issues of stats that the given rule appended.
IssuesOf(stats, rule) == {i \in 1..Len(stats.issues) : stats.issues[i].rule = rule}

HasRule(stats, rule) == IssuesOf(stats, rule) # {}

\* The run reached its report: it neither stopped at the path check nor
\* ended in a traceback.
Reported == pc = "done" /\ output \in {"json", "summary"}

\* C1: with --fix, a file is deleted only if its issue list holds an issue
\* of CRITICAL severity, the warmup-loop issue; a file whose issues are all
\* WARNING or read-error issues stays on disk whatever text they cite.
CleanupSafety ==
    \A i \in 1..Len(removals) :
        removals[i].ok =>
            \E j \in 1..Len(problematic) :
                /\ problematic[j].path = removals[i].path
                /\ HasRule(problematic[j], "warmup")

\* The stats after the first k lines of a file have been aggregated.
AfterPrefix(path, k) ==
    ReadLines(NewStats(path, fs[path].size), fs[path].lines, 1, k).stats

CountsBounded(stats) ==
    /\ stats.message_count >= stats.warmup_errors
    /\ \A i \in 1..Len(stats.tool_calls) :
          stats.message_count >= stats.tool_calls[i].count

\* C2: for every analysed file and after any prefix of its lines, the
\* total record count is at least the warmup-error count and at least the
\* count of every single name of the tool-call mapping.
RecordCountDominates ==
    \A i \in 1..Len(results) :
        /\ CountsBounded(results[i])
        /\ fs[results[i].path].kind = "file" /\ fs[results[i].path].readable =>
              \A k \in 0..Len(fs[results[i].path].lines) :
                  CountsBounded(AfterPrefix(results[i].path, k))

\* C3: when --path names an existing root, the exit status of a run that
\* reached its report is the number of problematic files it found (0
\* exactly when there is none), in both output modes, with or without --fix.
ExitIsProblemCount ==
    Reported /\ root # "missing" => exit = Len(problematic)

\* C4: once the path check has passed, no failure while analysing one file
\* ends the run: the run reaches its report and every discovered file has
\* its statistics in the results.
ErrorIsolation ==
    pc = "done" /\ root # "missing" =>
        /\ output # "traceback"
        /\ Len(results) = Len(sessions)
        /\ \A i \in 1..Len(results) : results[i].path = sessions[i]

\* C5: in a file that opens, a line that decodes but whose top-level value
\* or fields are absent or wrong-typed adds no issue, and the lines after
\* it are still aggregated: no read-error issue, and every line counted.
LenientParsing ==
    \A i \in 1..Len(results) :
        LET node == fs[results[i].path]
        IN  node.kind = "file" /\ node.readable =>
                /\ ~HasRule(results[i], "read")
                /\ results[i].message_count = Len(node.lines)

\* The position of a rule in the order the classifier appends issues.
RuleRank(rule) ==
    CASE rule = "warmup" -> 1
      [] rule = "messages" -> 2
      [] rule = "repeat" -> 3
      [] rule = "size" -> 4
      [] OTHER -> 0

\* The entries of the tool-call mapping whose count exceeds 50.
Repeated(stats) ==
    {i \in 1..Len(stats.tool_calls) : stats.tool_calls[i].count > 50}

CleanupReachesEveryCritical ==
    Reported /\ args.fix =>
        \A j \in 1..Len(problematic) :
            HasRule(problematic[j], "warmup") =>
                \E i \in 1..Len(removals) : removals[i].path = problematic[j].path

\* The lines of a file that json.loads rejects.
Malformed(lines) == {k \in 1..Len(lines) : lines[k].json = "invalid"}

\* C8: a file that opens and holds exactly one undecodable line among
\* lines that decode has the warmup-error count, tool-call mapping and
\* sidechain flag of the same file without that line, one more record
\* counted, and no read-error issue the other file lacks.
MalformedLineRobust ==
    \A i \in 1..Len(results) :
        LET node == fs[results[i].path]
        IN  node.kind = "file" /\ node.readable =>
                \A k \in Malformed(node.lines) :
                    Malformed(node.lines) = {k} =>
                        LET other == AnalyzeSession(results[i].path,
                                        [node EXCEPT !.lines = RemoveAt(node.lines, k)]).stats
                        IN  /\ results[i].warmup_errors = other.warmup_errors
                            /\ results[i].tool_calls = other.tool_calls
                            /\ results[i].is_sidechain = other.is_sidechain
                            /\ results[i].message_count = other.message_count + 1
                            /\ HasRule(results[i], "read") <=> HasRule(other, "read")

\* C9: when --path names no existing directory (nothing, or something that
\* is no directory), the run reports the error and exits nonzero, having
\* discovered, analysed, reported and deleted nothing.
ConfigurationError ==
    pc = "done" /\ root # "dir" =>
        /\ exit > 0
        /\ output = "notfound"
        /\ sessions = <<>>
        /\ results = <<>>
        /\ removals = <<>>

\* C10: a run without --fix changes no file, in either output mode, and a
\* second run without --fix over the tree ends with the per-file statistics
\* and issue lists of the first.
ReadOnlyWithoutFix ==
    [][/\ ~args.fix => fs' = fs
       /\ pc' = "done" /\ prev'.ran /\ ~args'.fix => results' = prev'.results]_vars

\* A second run without --fix has reported a file whose issues name
\* CRITICAL, and the file is still on disk.
SecondRunSawCritical ==
    /\ run = 2
    /\ Reported
    /\ ~args.fix
    /\ prev.results # <<>>
    /\ \E j \in 1..Len(problematic) :
          /\ HasRule(problematic[j], "warmup")
          /\ fs[problematic[j].path].kind = "file"

\* The number of entries of the tool-call mapping that come before entry k
\* when the entries are ordered by descending count, equal counts in the
\* order they were first encountered.
Before(stats, k) ==
    Cardinality({j \in 1..Len(stats.tool_calls) :
        \/ stats.tool_calls[j].count > stats.tool_calls[k].count
        \/ /\ stats.tool_calls[j].count = stats.tool_calls[k].count
           /\ j < k})

ToolUses(lines) ==
    UNION {{<<l, j>> : j \in {h \in 1..Len(lines[l].items) :
                                /\ lines[l].items[h].dict
                                /\ lines[l].items[h].type = "tool_use"}} :
           l \in {g \in 1..Len(lines) : /\ lines[g].json = "dict"
                                       /\ lines[g].type = "assistant"
                                       /\ lines[g].message = "dict"
                                       /\ lines[g].content = "list"}}

\* The key C12 gives an item: input's command if there is one, else the
\* item's name, else "unknown"; an input that is absent or no mapping has
\* no command.
ClaimedName(item) ==
    IF item.input = "dict" /\ item.command.k # "absent" THEN item.command
    ELSE IF item.name.k # "absent" THEN item.name
    ELSE StrKey(UNKNOWN)

\* C12: in a file read without a read error, every tool_use item of an
\* assistant record increments exactly one entry of the tool-call mapping,
\* keyed by input's command, else the item's name, else "unknown" (an
\* absent or wrong-typed input having no command), and nothing else
\* increments any entry.
ToolInvocationCounting ==
    \A i \in 1..Len(results) :
        LET stats == results[i]
            node == fs[stats.path]
            uses == ToolUses(node.lines)
        IN  node.kind = "file" /\ node.readable /\ ~HasRule(stats, "read") =>
                /\ \A k \in 1..Len(stats.tool_calls) :
                      stats.tool_calls[k].count =
                          Cardinality({u \in uses :
                              ClaimedName(node.lines[u[1]].items[u[2]])
                                  = stats.tool_calls[k].cmd})
                /\ \A u \in uses :
                      \E k \in 1..Len(stats.tool_calls) :
                          stats.tool_calls[k].cmd = ClaimedName(node.lines[u[1]].items[u[2]])
                /\ \A k, h \in 1..Len(stats.tool_calls) :
                      stats.tool_calls[k].cmd = stats.tool_calls[h].cmd => k = h

====
